---- MODULE Spec2Model ----
(***************************************************************************)
(* Model of the Huveaune flood animation (AnimationKarstEdumed):           *)
(*   - the series generator of constants.ts (src/unnamed/part_000),        *)
(*   - the timeline driver of App.tsx (playback state, transport           *)
(*     handlers, the requestAnimationFrame loop and its useEffect),        *)
(*   - the sample lookups of the views (Hydrograph, StationMap,            *)
(*     FloodSimulation, DynamicWater).                                     *)
(*                                                                         *)
(* Numbers.  The program computes with IEEE doubles; the model uses fixed  *)
(* point.  A time (hours) or a duration (seconds) x is held as the integer *)
(* x * TimeScale, a water level (metres) y as y * LevelScale.              *)
(***************************************************************************)
EXTENDS Integers, Sequences, FiniteSets, TLC

VARIABLES
    pc,               \* "load": constants.ts is being evaluated; "run": App is mounted
    i,                \* the counter of the generation loop
    currentTime,      \* useState(0)
    isPlaying,        \* useState(false)
    playbackSpeed,    \* useState(1)
    activeTab,        \* useState('simulation')
    requestRef,       \* useRef(null): handle of the last requested frame
    lastTimeRef,      \* useRef(undefined): see UNDEFINED and Tick
    raf,              \* the browser's list of requested animation-frame callbacks
    effectDeps,       \* [isPlaying, playbackSpeed] of the last run of the effect
    last              \* observation: the last operation and what it was given

vars == <<pc, i, currentTime, isPlaying, playbackSpeed, activeTab,
          requestRef, lastTimeRef, raf, effectDeps, last>>

(***************************************************************************)
(* Bounds of the model.                                                    *)
(***************************************************************************)
\* time units per sample step (2 gives a resolution of a quarter of an hour)
TicksPerStep == 2
\* precision of a water level: units per metre
LevelScale == 10000
\* longest wall-clock time between two animation frames, in clock units
MaxDelta == 2
\* how far outside [0, MAX_TIME] a direct call of handleSeek is tried
Over == 3
\* the slider positions tried lie within SliderReach of 0 and of MAX_TIME
\* (and next to the sample of 16 h)
SliderReach == 2
\* precision of an infiltration progress: units per 1 (100 %)
ProgressScale == 1000

(***************************************************************************)
(* constants.ts                                                            *)
(***************************************************************************)
TOTAL_HOURS == 48
STEPS_PER_HOUR == 2

TimeScale == STEPS_PER_HOUR * TicksPerStep

\* n half hours as a time (peak times are multiples of 0.5 h)
HalfHours(n) == (n * TimeScale) \div 2

MAX_TIME == TOTAL_HOURS * TimeScale

(***************************************************************************)
(* Math.exp in fixed point.  Exp(n, d) is exp(-n/d) * LevelScale for       *)
(* n >= 0, d > 0: exp(-n/d) = exp(-1)^(n div d) * exp(-(n mod d)/d), the   *)
(* last factor by its alternating Taylor series.  Like Math.exp, the       *)
(* result is never negative, is LevelScale at 0 and decreases with n/d.    *)
(***************************************************************************)
RECURSIVE TaylorSum(_, _, _, _)
TaylorSum(r, d, j, term) ==
    IF term = 0 THEN 0
    ELSE term - TaylorSum(r, d, j + 1, (term * r) \div (d * (j + 1)))

ExpFrac(r, d) == TaylorSum(r, d, 0, LevelScale)

\* acc * exp(-1)^k, one factor at a time
RECURSIVE ExpInt(_, _)
ExpInt(k, acc) ==
    IF k = 0 \/ acc = 0 THEN acc
    ELSE ExpInt(k - 1, (acc * ExpFrac(1, 1)) \div LevelScale)

Exp(n, d) == (ExpInt(n \div d, LevelScale) * ExpFrac(n % d, d)) \div LevelScale

\* amplitude * Math.exp(-Math.pow(t - peak, 2) / width), the amplitude in
\* tenths of a metre, the peak in half hours, t a time
Pulse(tenths, t, peak, width) ==
    LET dt == t - HalfHours(peak)
    IN  (tenths * Exp(dt * dt, TimeScale * TimeScale * width)) \div 10

\* const base = 0.3
base == (3 * LevelScale) \div 10

\* mutant: the runoff reaches Marseille last (peak at 10 h)
runoffMarseilleLate(t) == Pulse(4, t, 20, 8)

runoffMarseille(t) == Pulse(4, t, 12, 8)
runoffAubagne(t) == Pulse(5, t, 14, 8)
runoffRoquevaire(t) == Pulse(6, t, 16, 8)
runoffStZacharie(t) == Pulse(1, t, 18, 8)

\* mutant: the karst pulse of the source peaks at 18 h
karstStZacharieLate(t) == Pulse(12, t, 36, 15)

karstStZacharie(t) == Pulse(12, t, 32, 15)
karstRoquevaire(t) == Pulse(13, t, 35, 18)
\* mutant: the karst wave is at Aubagne when it is at the source (peak at 16 h)
karstAubagneAtSource(t) == Pulse(9, t, 32, 20)

karstAubagne(t) == Pulse(9, t, 38, 20)
karstMarseille(t) == Pulse(4, t, 42, 25)

\* mutant: the base flow left out of the sum
hAubagneNoBase(t) == runoffAubagne(t) + karstAubagne(t)

hMarseille(t) == base + runoffMarseille(t) + karstMarseille(t)
hAubagne(t) == base + runoffAubagne(t) + karstAubagne(t)
hRoquevaire(t) == base + runoffRoquevaire(t) + karstRoquevaire(t)
hStZacharie(t) == base + runoffStZacharie(t) + karstStZacharie(t)

\* mutant: the number is printed without the leading zero
PadNone(n) == ToString(n)

\* day < 10 ? '0' + day : day
Pad(n) == IF n < 10 THEN "0" \o ToString(n) ELSE ToString(n)

\* mutant: the day is not computed from t
LabelFirstDay(t) ==
    LET hour == (t % (24 * TimeScale)) \div TimeScale
        min == ((t % TimeScale) * 60) \div TimeScale
    IN  Pad(9) \o "-02 " \o Pad(hour) \o ":" \o Pad(min)

Label(t) ==
    LET day == (t \div (24 * TimeScale)) + 9
        hour == (t % (24 * TimeScale)) \div TimeScale
        min == ((t % TimeScale) * 60) \div TimeScale
    IN  Pad(day) \o "-02 " \o Pad(hour) \o ":" \o Pad(min)

\* the body of the generation loop for counter k: the data point it pushes
DataPoint(k) ==
    LET t == (k * TimeScale) \div STEPS_PER_HOUR
    IN  [time |-> t,
         label |-> Label(t),
         stZacharie |-> hStZacharie(t),
         roquevaire |-> hRoquevaire(t),
         aubagne |-> hAubagne(t),
         marseille |-> hMarseille(t)]

\* mutant: i < TOTAL_HOURS * STEPS_PER_HOUR
LoopConditionExclusive(k) == k < TOTAL_HOURS * STEPS_PER_HOUR

\* the loop condition i <= TOTAL_HOURS * STEPS_PER_HOUR
LoopCondition(k) == k <= TOTAL_HOURS * STEPS_PER_HOUR

\* the data points of the counters the loop can reach
DataPoints == [k \in 0..(TOTAL_HOURS * STEPS_PER_HOUR + 1) |-> DataPoint(k)]

\* export const SIMULATION_DATA: the array as pushed so far.  The loop only
\* appends, and the point pushed for counter k depends on k alone, so the
\* array is given by the counter: element k (1-based) was pushed at i = k - 1.
SIMULATION_DATA == [k \in 1..i |-> DataPoints[k - 1]]

(***************************************************************************)
(* The views' sample lookups.  A lookup yields an index into data (1-based)*)
(* or NotFound for the undefined of Array.prototype.find.                  *)
(***************************************************************************)
NotFound == 0

\* mutant: d => d.time > currentTime
After(d, t) == d.time > t

\* the predicate d => d.time >= currentTime
AtOrAfter(d, t) == d.time >= t

\* data.find(pred): the first element, in array order, that satisfies it
Find(data, t) ==
    LET hits == {k \in 1..Len(data) : AtOrAfter(data[k], t)}
    IN  IF hits = {} THEN NotFound ELSE CHOOSE k \in hits : \A j \in hits : k <= j

\* data.find(d => d.time >= currentTime) || data[data.length - 1]
FindOrLast(data, t) ==
    IF Find(data, t) # NotFound THEN Find(data, t) ELSE Len(data)

\* FloodSimulation.tsx:692, FloodSimulation.tsx:372, StationMap.tsx
FloodSimulationData(data, t) == FindOrLast(data, t)
DynamicWaterData(data, t) == FindOrLast(data, t)
StationMapData(data, t) == FindOrLast(data, t)

\* mutant: the chart's cursor looked up with d => d.time > currentTime
HydrographCursorIndexAfter(data, t) ==
    LET hits == {k \in 1..Len(data) : data[k].time > t}
    IN  IF hits = {} THEN NotFound ELSE CHOOSE k \in hits : \A j \in hits : k <= j

\* Hydrograph.tsx:83: data.find(d => d.time >= currentTime)?.label
HydrographCursorIndex(data, t) == Find(data, t)
HydrographCursor(data, t) ==
    IF Find(data, t) # NotFound THEN data[Find(data, t)].label ELSE "undefined"

(***************************************************************************)
(* FloodSimulation.tsx: the infiltration progress of the karst massif and  *)
(* of its labels, for a currentTime t, in units of 1 / ProgressScale.      *)
(***************************************************************************)
\* KarstMassif: rawProgress
KarstMassifRawProgress(t) ==
    LET infiltrationStart == 10 * TimeScale
        infiltrationDuration == HalfHours(5)
    IN  IF t >= infiltrationStart
        THEN ((t - infiltrationStart) * ProgressScale) \div infiltrationDuration
        ELSE 0

\* KarstLabels: progress = Math.min(rawProgress, 1)
KarstLabelsProgress(t) ==
    LET infiltrationStart == 10 * TimeScale
        infiltrationDuration == 3 * TimeScale
        rawProgress == IF t >= infiltrationStart
                       THEN ((t - infiltrationStart) * ProgressScale) \div infiltrationDuration
                       ELSE 0
    IN  IF rawProgress < ProgressScale THEN rawProgress ELSE ProgressScale

(***************************************************************************)
(* App.tsx.  Refs and the browser's frame requests are handled as one      *)
(* record r = [requestRef, lastTimeRef, raf] by the operators below.       *)
(*                                                                         *)
(* lastTimeRef holds UNDEFINED or a timestamp.  The program only ever      *)
(* subtracts the stored timestamp from the timestamp of the running frame  *)
(* (App.tsx:20), so the model stores the timestamp relative to the present:*)
(* lastTimeRef = a means "the stored timestamp is a clock units old", and  *)
(* Tick (the wall clock advancing) ages it.                                *)
(*                                                                         *)
(* A frame request is [id, isPlaying, playbackSpeed]: the handle that      *)
(* requestAnimationFrame returned and the values of isPlaying and          *)
(* playbackSpeed that the requested animate closure captured at its render.*)
(***************************************************************************)
NULL == 0
UNDEFINED == -1

Refs == [requestRef |-> requestRef, lastTimeRef |-> lastTimeRef, raf |-> raf]

\* a handle requestAnimationFrame has not handed out among those still known
FreshId(r) ==
    CHOOSE n \in 1..(Cardinality(r.raf) + 2) :
        /\ n # r.requestRef
        /\ \A c \in r.raf : c.id # n
        /\ \A m \in 1..(n - 1) : m = r.requestRef \/ \E c \in r.raf : c.id = m

\* requestRef.current = requestAnimationFrame(animate), animate being the
\* closure of the render with the given isPlaying and playbackSpeed
RequestFrame(r, playing, speed) ==
    [r EXCEPT !.raf = @ \cup {[id |-> FreshId(r), isPlaying |-> playing,
                               playbackSpeed |-> speed]},
              !.requestRef = FreshId(r)]

\* mutant: the frame is never cancelled
CancelFrameNever(r) == r

\* if (requestRef.current) cancelAnimationFrame(requestRef.current)
CancelFrame(r) ==
    IF r.requestRef # NULL
    THEN [r EXCEPT !.raf = {c \in @ : c.id # r.requestRef}]
    ELSE r

\* mutant: pausing leaves lastTimeRef as it is
EffectBodyKeepsLastTime(r, playing, speed) ==
    IF playing THEN RequestFrame(r, playing, speed) ELSE CancelFrame(r)

\* mutant: the effect requests a frame whether or not playback runs
EffectBodyAlwaysRequests(r, playing, speed) == RequestFrame(r, playing, speed)

\* the body of the effect, for the render with the given state
EffectBody(r, playing, speed) ==
    IF playing
    THEN RequestFrame(r, playing, speed)
    ELSE CancelFrame([r EXCEPT !.lastTimeRef = UNDEFINED])

\* mutant: the effect returns no cleanup
RunEffectNoCleanup(r, playing, speed) == EffectBody(r, playing, speed)

\* a run of the effect after a commit that changed its dependencies: the
\* cleanup of the previous run, then the body
RunEffect(r, playing, speed) == EffectBody(CancelFrame(r), playing, speed)

\* mutant: the dependencies are [isPlaying] alone
FlushEffectsPlayingOnly(r, deps, playing, speed) ==
    IF deps[1] # playing THEN RunEffect(r, playing, speed) ELSE r

\* React runs the effect when [isPlaying, playbackSpeed] differs from the
\* dependencies of its last run
FlushEffects(r, deps, playing, speed) ==
    IF deps # <<playing, speed>> THEN RunEffect(r, playing, speed) ELSE r

\* mutant: prevTime - (deltaTime * 2 * playbackSpeed)
NextTimeBackward(prevTime, deltaTime, speed) == prevTime - (deltaTime * 2 * speed)

\* prevTime + (deltaTime * 2 * playbackSpeed)
NextTime(prevTime, deltaTime, speed) == prevTime + (deltaTime * 2 * speed)

\* mutant: nextTime > MAX_TIME
PassesEnd(nextTime) == nextTime > MAX_TIME

\* nextTime >= MAX_TIME
ReachesEnd(nextTime) == nextTime >= MAX_TIME

\* mutant: the speed stays at 4 instead of wrapping to 1
NextSpeedSaturating(prev) == IF prev >= 4 THEN 4 ELSE prev * 2

\* mutant: prev > 4 ? 1 : prev * 2
NextSpeedAbove(prev) == IF prev > 4 THEN 1 ELSE prev * 2

\* prev => prev >= 4 ? 1 : prev * 2
NextSpeed(prev) == IF prev >= 4 THEN 1 ELSE prev * 2

\* mutant: the timeline wraps to 0 at the end
UpdaterWraps(prevTime, deltaTime, speed) ==
    IF NextTime(prevTime, deltaTime, speed) >= MAX_TIME
    THEN 0
    ELSE NextTime(prevTime, deltaTime, speed)

\* mutant: the updater returns nextTime whatever it is
UpdaterUnclamped(prevTime, deltaTime, speed) == NextTime(prevTime, deltaTime, speed)

\* the updater given to setCurrentTime by animate: the new currentTime
Updater(prevTime, deltaTime, speed) ==
    IF ReachesEnd(NextTime(prevTime, deltaTime, speed))
    THEN MAX_TIME
    ELSE NextTime(prevTime, deltaTime, speed)

\* mutant: the updater never calls setIsPlaying(false)
UpdaterKeepsPlaying(playing, prevTime, deltaTime, speed) == playing

\* the updater's setIsPlaying(false): the new isPlaying
UpdaterPlaying(playing, prevTime, deltaTime, speed) ==
    IF ReachesEnd(NextTime(prevTime, deltaTime, speed)) THEN FALSE ELSE playing

Observe(op, arg) == [op |-> op, arg |-> arg, playing |-> isPlaying, atEnd |-> FALSE]

(***************************************************************************)
(* Evaluation of constants.ts (the generation loop, one iteration a step), *)
(* then the first render of App.  The playback variables hold the useState *)
(* and useRef initial values from the start.                               *)
(***************************************************************************)
Init ==
    /\ pc = "load"
    /\ i = 0
    /\ currentTime = 0
    /\ isPlaying = FALSE
    /\ playbackSpeed = 1
    /\ activeTab = "simulation"
    /\ requestRef = NULL
    /\ lastTimeRef = UNDEFINED
    /\ raf = {}
    /\ effectDeps = <<>>
    /\ last = [op |-> "none", arg |-> 0, playing |-> FALSE, atEnd |-> FALSE]

\* one iteration: SIMULATION_DATA.push({...}); i++
LoopStep ==
    /\ pc = "load"
    /\ LoopCondition(i)
    /\ i' = i + 1
    /\ UNCHANGED <<pc, currentTime, isPlaying, playbackSpeed, activeTab, requestRef,
                   lastTimeRef, raf, effectDeps, last>>

\* the loop has ended: App renders for the first time and its effect runs
\* (isPlaying is false: it sets lastTimeRef to undefined, no frame to cancel)
Mount ==
    /\ pc = "load"
    /\ ~LoopCondition(i)
    /\ pc' = "run"
    /\ LET r == EffectBody(Refs, isPlaying, playbackSpeed)
       IN  /\ requestRef' = r.requestRef
           /\ lastTimeRef' = r.lastTimeRef
           /\ raf' = r.raf
    /\ effectDeps' = <<isPlaying, playbackSpeed>>
    /\ last' = Observe("mount", 0)
    /\ UNCHANGED <<i, currentTime, isPlaying, playbackSpeed, activeTab>>

(***************************************************************************)
(* A state update made in an event handler (click, change).  React renders *)
(* before the handler's task ends and runs the passive effects of that     *)
(* render at once; effects left pending by an earlier render are run       *)
(* before the render starts.  An update that changes nothing is dropped    *)
(* without a render.                                                       *)
(***************************************************************************)
SyncUpdate(time, playing, speed, tab) ==
    /\ pc = "run"
    /\ currentTime' = time
    /\ isPlaying' = playing
    /\ playbackSpeed' = speed
    /\ activeTab' = tab
    /\ IF <<time, playing, speed, tab>> = <<currentTime, isPlaying, playbackSpeed, activeTab>>
       THEN UNCHANGED <<requestRef, lastTimeRef, raf, effectDeps>>
       ELSE LET r1 == FlushEffects(Refs, effectDeps, isPlaying, playbackSpeed)
                r2 == FlushEffects(r1, <<isPlaying, playbackSpeed>>, playing, speed)
            IN  /\ requestRef' = r2.requestRef
                /\ lastTimeRef' = r2.lastTimeRef
                /\ raf' = r2.raf
                /\ effectDeps' = <<playing, speed>>
    /\ UNCHANGED <<pc, i>>

\* mutant: the seek is dropped while playback runs
handleSeekWhenPaused(time) ==
    /\ SyncUpdate(IF isPlaying THEN currentTime ELSE time, isPlaying, playbackSpeed, activeTab)
    /\ last' = Observe("seek", time)

\* const handleSeek = (time) => { setCurrentTime(time) }
handleSeek(time) ==
    /\ SyncUpdate(time, isPlaying, playbackSpeed, activeTab)
    /\ last' = Observe("seek", time)

\* mutant: setIsPlaying(true)
togglePlayAlwaysPlays ==
    /\ SyncUpdate(currentTime, TRUE, playbackSpeed, activeTab)
    /\ last' = Observe("togglePlay", 0)

\* const togglePlay = () => setIsPlaying(!isPlaying)
togglePlay ==
    /\ SyncUpdate(currentTime, ~isPlaying, playbackSpeed, activeTab)
    /\ last' = Observe("togglePlay", 0)

\* const handleSpeedChange = () => { setPlaybackSpeed(prev => ...) }
handleSpeedChange ==
    /\ SyncUpdate(currentTime, isPlaying, NextSpeed(playbackSpeed), activeTab)
    /\ last' = Observe("speed", 0)

\* mutant: the setIsPlaying(false) left out
handleResetTimeOnly ==
    /\ SyncUpdate(0, isPlaying, playbackSpeed, activeTab)
    /\ last' = Observe("reset", 0)

\* const handleReset = () => { setIsPlaying(false); setCurrentTime(0) }
handleReset ==
    /\ SyncUpdate(0, FALSE, playbackSpeed, activeTab)
    /\ last' = Observe("reset", 0)

\* mutant: switching the tab also pauses playback
setActiveTabPausing ==
    \E tab \in {"simulation", "map"} :
        /\ SyncUpdate(currentTime, FALSE, playbackSpeed, tab)
        /\ last' = Observe("tab", 0)

\* the tab switcher's onClick={() => setActiveTab(...)}
setActiveTab ==
    \E tab \in {"simulation", "map"} :
        /\ SyncUpdate(currentTime, isPlaying, playbackSpeed, tab)
        /\ last' = Observe("tab", 0)

\* Controls: <input type="range" min="0" max={maxTime}> emits a value of
\* its range; onChange={(e) => onSeek(parseFloat(e.target.value))}
SliderValues ==
    {v \in 0..MAX_TIME : \/ v <= SliderReach
                         \/ v >= MAX_TIME - SliderReach
                         \/ v \in (HalfHours(32) - 1)..(HalfHours(32) + 1)}

SliderChange == \E v \in SliderValues : handleSeek(v)

\* the timeline driver's seek called with any number
SeekArguments ==
    SliderValues \cup ((0 - Over)..(0 - 1)) \cup ((MAX_TIME + 1)..(MAX_TIME + Over))

DirectSeek == \E t \in SeekArguments : handleSeek(t)

(***************************************************************************)
(* The wall clock advances by one unit (1 / TimeScale seconds).            *)
(***************************************************************************)
Tick ==
    /\ pc = "run"
    /\ lastTimeRef # UNDEFINED
    /\ lastTimeRef < MaxDelta
    /\ lastTimeRef' = lastTimeRef + 1
    /\ UNCHANGED <<pc, i, currentTime, isPlaying, playbackSpeed,
                   activeTab, requestRef, raf, effectDeps, last>>

(***************************************************************************)
(* The browser runs a requested frame callback c: animate(time) of the     *)
(* closure that c names.  The update is made outside an event handler:     *)
(* React renders it in a later task and leaves the effect of that render   *)
(* pending (FlushPassiveEffects), so another frame may run before it.      *)
(***************************************************************************)
animate(c) ==
    LET measured == lastTimeRef # UNDEFINED
        deltaTime == lastTimeRef
        time == IF measured THEN Updater(currentTime, deltaTime, c.playbackSpeed)
                ELSE currentTime
        playing == IF measured
                   THEN UpdaterPlaying(isPlaying, currentTime, deltaTime, c.playbackSpeed)
                   ELSE isPlaying
        r0 == [Refs EXCEPT !.raf = @ \ {c}, !.lastTimeRef = 0]
        r1 == IF c.isPlaying THEN RequestFrame(r0, c.isPlaying, c.playbackSpeed) ELSE r0
        rendered == <<time, playing>> # <<currentTime, isPlaying>>
        r2 == IF rendered
              THEN FlushEffects(r1, effectDeps, isPlaying, playbackSpeed)
              ELSE r1
    IN  /\ pc = "run"
        /\ c \in raf
        /\ currentTime' = time
        /\ isPlaying' = playing
        /\ requestRef' = r2.requestRef
        /\ lastTimeRef' = r2.lastTimeRef
        /\ raf' = r2.raf
        /\ effectDeps' = IF rendered THEN <<isPlaying, playbackSpeed>> ELSE effectDeps
        /\ last' = [op |-> "frame",
                    arg |-> 0,
                    playing |-> isPlaying,
                    atEnd |-> measured /\ ReachesEnd(NextTime(currentTime, deltaTime,
                                                              c.playbackSpeed))]
        /\ UNCHANGED <<pc, i, playbackSpeed, activeTab>>

AnimationFrame == \E c \in raf : animate(c)

\* React runs the effect that a render outside an event handler left pending
FlushPassiveEffects ==
    /\ pc = "run"
    /\ effectDeps # <<isPlaying, playbackSpeed>>
    /\ LET r == RunEffect(Refs, isPlaying, playbackSpeed)
       IN  /\ requestRef' = r.requestRef
           /\ lastTimeRef' = r.lastTimeRef
           /\ raf' = r.raf
    /\ effectDeps' = <<isPlaying, playbackSpeed>>
    /\ last' = Observe("effect", 0)
    /\ UNCHANGED <<pc, i, currentTime, isPlaying, playbackSpeed, activeTab>>

\* the application as the user drives it
Next ==
    \/ LoopStep
    \/ Mount
    \/ Tick
    \/ AnimationFrame
    \/ FlushPassiveEffects
    \/ togglePlay
    \/ handleSpeedChange
    \/ handleReset
    \/ setActiveTab
    \/ SliderChange

Spec == Init /\ [][Next]_vars

\* the same with the timeline driver's seek called directly
DriverNext ==
    \/ LoopStep
    \/ Mount
    \/ Tick
    \/ AnimationFrame
    \/ FlushPassiveEffects
    \/ togglePlay
    \/ handleSpeedChange
    \/ handleReset
    \/ setActiveTab
    \/ DirectSeek

DriverSpec == Init /\ [][DriverNext]_vars

(***************************************************************************)
(* Playback without the user: any state in which playback runs (the        *)
(* effect of the render that started it has run and requested the one      *)
(* pending frame), then only the clock, the frames and React act.  The     *)
(* browser runs every requested frame, time passes between frames, and     *)
(* React runs a pending effect: weak fairness of each.                     *)
(***************************************************************************)
AutoInit ==
    /\ pc = "run"
    /\ i = TOTAL_HOURS * STEPS_PER_HOUR + 1
    /\ currentTime \in 0..MAX_TIME
    /\ isPlaying = TRUE
    /\ playbackSpeed \in {1, 2, 4}
    /\ activeTab \in {"simulation", "map"}
    /\ requestRef \in 1..2
    /\ raf = {[id |-> requestRef, isPlaying |-> TRUE, playbackSpeed |-> playbackSpeed]}
    /\ lastTimeRef \in {UNDEFINED} \cup 0..MaxDelta
    /\ effectDeps = <<TRUE, playbackSpeed>>
    /\ last = [op |-> "togglePlay", arg |-> 0, playing |-> FALSE, atEnd |-> FALSE]

AutoNext ==
    \/ Tick
    \/ AnimationFrame
    \/ FlushPassiveEffects

AutoSpec ==
    /\ AutoInit
    /\ [][AutoNext]_vars
    /\ WF_vars(Tick)
    /\ WF_vars(AnimationFrame)
    /\ WF_vars(FlushPassiveEffects)

\* every state of Spec in which playback runs is a state of AutoInit but
\* for the observation
PlayingStatesAreAutoInit ==
    isPlaying =>
        /\ pc = "run"
        /\ i = TOTAL_HOURS * STEPS_PER_HOUR + 1
        /\ currentTime \in 0..MAX_TIME
        /\ playbackSpeed \in {1, 2, 4}
        /\ requestRef \in 1..2
        /\ raf = {[id |-> requestRef, isPlaying |-> TRUE, playbackSpeed |-> playbackSpeed]}
        /\ lastTimeRef \in {UNDEFINED} \cup 0..MaxDelta
        /\ effectDeps = <<TRUE, playbackSpeed>>

(***************************************************************************)
(* The claims.                                                             *)
(***************************************************************************)
LastIndex == Len(SIMULATION_DATA)
LastSampleTime == SIMULATION_DATA[LastIndex].time

\* C1: seek(t) with t outside [0, MAX_TIME] leaves currentTime at the
\* nearest bound (0 for t < 0, MAX_TIME for t > MAX_TIME), never at t,
\* whether or not playback runs.
C1_SeekClampsToNearestBound ==
    last.op = "seek" =>
        /\ last.arg < 0 => currentTime = 0
        /\ last.arg > MAX_TIME => currentTime = MAX_TIME

\* C2: in every state reached by toggles, resets, speed cycles, slider
\* seeks and frames with non-negative elapsed time, 0 <= currentTime <= MAX_TIME.
C2_CurrentTimeInRange == 0 <= currentTime /\ currentTime <= MAX_TIME

\* a frame advanced currentTime up to the end of the timeline
C2_Witness == last.op = "frame" /\ last.atEnd /\ currentTime = TOTAL_HOURS * TimeScale

\* C3: whenever isPlaying is false, a frame callback that runs (one requested
\* before playback stopped included) leaves currentTime unchanged.
C3_PausedFrameKeepsTime ==
    [][(~isPlaying /\ AnimationFrame) => currentTime' = currentTime]_vars

\* a frame callback ran while isPlaying was false
C3_Witness == last.op = "frame" /\ ~last.playing

\* C4: a frame whose nextTime reaches or passes MAX_TIME sets currentTime to
\* MAX_TIME and isPlaying to false; frames after that leave both as they are.
C4_EndStopsPlayback ==
    [][\A c \in raf :
          animate(c) =>
              /\ (/\ lastTimeRef # UNDEFINED
                  /\ currentTime + lastTimeRef * 2 * c.playbackSpeed >= TOTAL_HOURS * TimeScale)
                 => (currentTime' = TOTAL_HOURS * TimeScale /\ isPlaying' = FALSE)
              /\ (currentTime = TOTAL_HOURS * TimeScale /\ ~isPlaying)
                 => (currentTime' = TOTAL_HOURS * TimeScale /\ isPlaying' = FALSE)]_vars

\* a frame of running playback whose nextTime reached the end has run
C4_Witness == last.op = "frame" /\ last.atEnd /\ last.playing

\* C5: from any state in which playback runs, with no further user action
\* and frames that keep running with time passing between them, the system
\* reaches currentTime = MAX_TIME with isPlaying false and no frame
\* requested, and stays there.
C5_PlaybackEndsAndRests ==
    <>[](currentTime = TOTAL_HOURS * TimeScale /\ ~isPlaying /\ raf = {})

\* the effect that follows the automatic pause has run: playback rests at the end
C5_Witness ==
    /\ last.op = "effect"
    /\ currentTime = TOTAL_HOURS * TimeScale
    /\ ~isPlaying
    /\ raf = {}

\* C6: the lookup of the views returns the sample with the smallest time
\* >= currentTime; a currentTime equal to a sample's time gives that sample.
SmallestAtOrAfter(k, t) ==
    /\ k \in 1..LastIndex
    /\ SIMULATION_DATA[k].time >= t
    /\ \A j \in 1..LastIndex :
           SIMULATION_DATA[j].time >= t => SIMULATION_DATA[k].time <= SIMULATION_DATA[j].time
    /\ \A j \in 1..LastIndex : SIMULATION_DATA[j].time = t => k = j

C6_LookupSmallestAtOrAfter ==
    pc = "run" =>
        /\ SmallestAtOrAfter(FloodSimulationData(SIMULATION_DATA, currentTime), currentTime)
        /\ SmallestAtOrAfter(StationMapData(SIMULATION_DATA, currentTime), currentTime)

\* currentTime is exactly the time of a sample other than the first, and the
\* lookup gives that sample
C6_Witness ==
    pc = "run" /\ \E k \in 2..LastIndex :
        /\ SIMULATION_DATA[k].time = currentTime
        /\ FloodSimulationData(SIMULATION_DATA, currentTime) = k

\* C7: for a currentTime greater than every sample's time, the lookup of
\* every view (3D scene, water mesh, map, chart cursor) yields the last
\* sample, never no sample.
C7_LookupPastEndYieldsLast ==
    (pc = "run" /\ currentTime > LastSampleTime) =>
        /\ FloodSimulationData(SIMULATION_DATA, currentTime) = LastIndex
        /\ DynamicWaterData(SIMULATION_DATA, currentTime) = LastIndex
        /\ StationMapData(SIMULATION_DATA, currentTime) = LastIndex
        /\ HydrographCursorIndex(SIMULATION_DATA, currentTime) = LastIndex
        /\ HydrographCursor(SIMULATION_DATA, currentTime) = SIMULATION_DATA[LastIndex].label

\* C8: for one currentTime all views select the same sample.
C8_ViewsSelectSameSample ==
    LET k == HydrographCursorIndex(SIMULATION_DATA, currentTime)
    IN  pc = "run" =>
        /\ k # NotFound
        /\ FloodSimulationData(SIMULATION_DATA, currentTime) = k
        /\ DynamicWaterData(SIMULATION_DATA, currentTime) = k
        /\ StationMapData(SIMULATION_DATA, currentTime) = k
        /\ HydrographCursor(SIMULATION_DATA, currentTime) = SIMULATION_DATA[k].label

\* playback has moved currentTime strictly between two samples, and the
\* views show the later one
C8_Witness ==
    /\ last.op = "frame"
    /\ \E k \in 2..LastIndex :
           /\ SIMULATION_DATA[k - 1].time < currentTime
           /\ currentTime < SIMULATION_DATA[k].time
           /\ StationMapData(SIMULATION_DATA, currentTime) = k
           /\ HydrographCursorIndex(SIMULATION_DATA, currentTime) = k

\* C9: the series has exactly 97 samples; sample i has time i * 0.5: times
\* increase strictly with constant step 0.5, from 0 to MAX_TIME (48).
C9_SeriesShape ==
    LET data == SIMULATION_DATA
    IN  pc = "run" =>
        /\ Len(data) = 97
        /\ \A k \in 1..Len(data) : 2 * data[k].time = (k - 1) * TimeScale
        /\ \A k \in 1..(Len(data) - 1) :
               /\ data[k].time < data[k + 1].time
               /\ 2 * (data[k + 1].time - data[k].time) = TimeScale
        /\ data[1].time = 0
        /\ data[Len(data)].time = MAX_TIME
        /\ MAX_TIME = 48 * TimeScale

\* the timeline is at the time of the 97th sample and the views show it
C9_Witness ==
    /\ pc = "run"
    /\ Len(SIMULATION_DATA) = 97
    /\ currentTime = SIMULATION_DATA[97].time
    /\ FloodSimulationData(SIMULATION_DATA, currentTime) = 97

\* C10: at every sample each of the four readings is >= the base 0.3.
C10_ReadingsAtLeastBase ==
    LET data == SIMULATION_DATA
    IN  pc = "run" =>
        \A k \in 1..Len(data) :
            /\ data[k].stZacharie >= (3 * LevelScale) \div 10
            /\ data[k].roquevaire >= (3 * LevelScale) \div 10
            /\ data[k].aubagne >= (3 * LevelScale) \div 10
            /\ data[k].marseille >= (3 * LevelScale) \div 10

\* the map shows a sample at which a reading is down at the base itself
C10_Witness ==
    LET d == SIMULATION_DATA[StationMapData(SIMULATION_DATA, currentTime)]
    IN  /\ pc = "run"
        /\ activeTab = "map"
        /\ d.stZacharie = (3 * LevelScale) \div 10
        /\ d.marseille > d.stZacharie

\* C11: reset() from any state gives currentTime = 0 and isPlaying = false
\* and leaves the playback speed as it was.
C11_ResetRewindsAndPauses ==
    [][handleReset => /\ currentTime' = 0
                      /\ isPlaying' = FALSE
                      /\ playbackSpeed' = playbackSpeed]_vars

\* a reset was made while playback ran at speed 4
C11_Witness ==
    /\ last.op = "reset"
    /\ last.playing
    /\ playbackSpeed = 4
    /\ currentTime = 0
    /\ ~isPlaying

\* C12: the play/pause toggle flips isPlaying and by itself changes neither
\* currentTime nor the playback speed.
C12_ToggleFlipsPlaying ==
    [][togglePlay => /\ isPlaying' = ~isPlaying
                     /\ currentTime' = currentTime
                     /\ playbackSpeed' = playbackSpeed]_vars

\* playback was paused by the toggle in mid-timeline at speed 2
C12_Witness ==
    /\ last.op = "togglePlay"
    /\ last.playing
    /\ ~isPlaying
    /\ currentTime > 0
    /\ currentTime < MAX_TIME
    /\ playbackSpeed = 2

\* C13: seek(t) with t in [0, MAX_TIME] sets currentTime to t at once, while
\* playing as well as while paused, and changes neither isPlaying nor the
\* playback speed.
C13_SeekInRangeSetsTime ==
    [][\A t \in SeekArguments :
          (0 <= t /\ t <= MAX_TIME /\ handleSeek(t)) =>
              /\ currentTime' = t
              /\ isPlaying' = isPlaying
              /\ playbackSpeed' = playbackSpeed]_vars

\* the slider was moved to 16 h while playback ran, and playback still runs
C13_Witness ==
    /\ last.op = "seek"
    /\ last.arg = HalfHours(32)
    /\ last.playing
    /\ isPlaying
    /\ currentTime = HalfHours(32)

\* C14: cycleSpeed() moves the speed along 1 -> 2 -> 4 -> 1, so three calls
\* in a row from speed 1 are back at speed 1; it changes neither currentTime
\* nor isPlaying.
C14_SpeedCycles ==
    [][handleSpeedChange =>
          /\ playbackSpeed = 1 => playbackSpeed' = 2
          /\ playbackSpeed = 2 => playbackSpeed' = 4
          /\ playbackSpeed = 4 => playbackSpeed' = 1
          /\ playbackSpeed \in {1, 2, 4}
          /\ currentTime' = currentTime
          /\ isPlaying' = isPlaying]_vars

\* the speed wrapped from 4 back to 1 while playback ran in mid-timeline
C14_Witness ==
    /\ last.op = "speed"
    /\ playbackSpeed = 1
    /\ last.playing
    /\ isPlaying
    /\ currentTime > 0

\* C15: in every reachable state the playback speed is one of 1, 2, 4.
C15_SpeedInCycle == playbackSpeed \in {1, 2, 4}

\* a frame has advanced the timeline at speed 4
C15_Witness ==
    /\ last.op = "frame"
    /\ last.playing
    /\ playbackSpeed = 4
    /\ currentTime > 0

\* C16: while playback runs, a frame that measures an elapsed time sets
\* currentTime to min(currentTime + elapsed * 2 * speed, MAX_TIME), speed
\* being the playback speed of the state in which the frame runs (after a
\* speed change, the new speed), not the one a closure captured earlier.
C16_FrameAdvancesAtCurrentSpeed ==
    [][\A c \in raf :
          (isPlaying /\ lastTimeRef # UNDEFINED /\ animate(c)) =>
              currentTime' =
                  IF currentTime + lastTimeRef * 2 * playbackSpeed < TOTAL_HOURS * TimeScale
                  THEN currentTime + lastTimeRef * 2 * playbackSpeed
                  ELSE TOTAL_HOURS * TimeScale]_vars

\* playback runs at speed 4 and frames have carried the timeline to 4 h, a
\* time the slider positions tried do not include
C16_Witness ==
    /\ last.op = "frame"
    /\ last.playing
    /\ isPlaying
    /\ playbackSpeed = 4
    /\ currentTime = 4 * TimeScale
    /\ currentTime \notin SliderValues

\* C17: switching the tab leaves currentTime, isPlaying and the speed as they
\* are; these three change only in a step of a transport handler (toggle,
\* reset, speed, seek) or of a frame callback.
C17_OnlyTransportMutatesPlayback ==
    [][/\ setActiveTab => UNCHANGED <<currentTime, isPlaying, playbackSpeed>>
       /\ (<<currentTime, isPlaying, playbackSpeed>>' # <<currentTime, isPlaying, playbackSpeed>>)
              => \/ togglePlay
                 \/ handleReset
                 \/ handleSpeedChange
                 \/ SliderChange
                 \/ AnimationFrame]_vars

\* the map was opened while playback ran, and playback still runs
C17_Witness ==
    /\ last.op = "tab"
    /\ activeTab = "map"
    /\ last.playing
    /\ isPlaying
    /\ currentTime > 0

\* C18: the playback state starts as currentTime = 0, isPlaying = false,
\* speed = 1, and no frame callback is requested before the first play:
\* none while the module loads and App mounts, and none in any state in
\* which playback is off and the effect of that render has run.
C18_InitialStateIdle ==
    /\ last.op \in {"none", "mount"} =>
           /\ currentTime = 0
           /\ isPlaying = FALSE
           /\ playbackSpeed = 1
           /\ raf = {}
           /\ requestRef = NULL
    /\ (~isPlaying /\ effectDeps = <<FALSE, playbackSpeed>>) => raf = {}

\* App has just mounted: its effect has run and has requested nothing
C18_Witness ==
    /\ pc = "run"
    /\ last.op = "mount"
    /\ effectDeps = <<FALSE, 1>>
    /\ raf = {}
    /\ currentTime = 0

(***************************************************************************)
(* The pulses of the generation loop as series over the sample times.  The *)
(* series does not change once the module is loaded, so the claims about   *)
(* the pulses are examined in the state in which App mounts.               *)
(***************************************************************************)
SampleTimes == {SIMULATION_DATA[k].time : k \in 1..Len(SIMULATION_DATA)}

KarstStZacharieSeries == [t \in SampleTimes |-> karstStZacharie(t)]
KarstRoquevaireSeries == [t \in SampleTimes |-> karstRoquevaire(t)]
KarstAubagneSeries == [t \in SampleTimes |-> karstAubagne(t)]
KarstMarseilleSeries == [t \in SampleTimes |-> karstMarseille(t)]

RunoffStZacharieSeries == [t \in SampleTimes |-> runoffStZacharie(t)]
RunoffRoquevaireSeries == [t \in SampleTimes |-> runoffRoquevaire(t)]
RunoffAubagneSeries == [t \in SampleTimes |-> runoffAubagne(t)]
RunoffMarseilleSeries == [t \in SampleTimes |-> runoffMarseille(t)]

\* the sample times at which a series is at its maximum
PeakTimes(series) ==
    {t \in DOMAIN series : \A u \in DOMAIN series : series[u] <= series[t]}

\* the maximum of a series
Amplitude(series) == series[CHOOSE t \in PeakTimes(series) : TRUE]

\* the series d peaks strictly later than the series u
PeaksLater(u, d) == \A a \in PeakTimes(u), b \in PeakTimes(d) : a < b

\* the peak of the karst pulse of St Zacharie is within an hour of 16 h
KarstSourcePeakAbout16 ==
    \A a \in PeakTimes(KarstStZacharieSeries) :
        /\ 15 * TimeScale <= a
        /\ a <= 17 * TimeScale

\* each karst pulse peaks strictly later than the one upstream of it
KarstPeaksLaterDownstream ==
    LET kS == KarstStZacharieSeries
        kR == KarstRoquevaireSeries
        kA == KarstAubagneSeries
        kM == KarstMarseilleSeries
    IN  PeaksLater(kS, kR) /\ PeaksLater(kR, kA) /\ PeaksLater(kA, kM)

\* C19 as claimed: the karst pulse of St Zacharie peaks at about 16 h, and
\* at each station downstream (Roquevaire, Aubagne, Marseille) the karst
\* pulse peaks strictly later and with a strictly smaller amplitude than at
\* the station immediately upstream.
C19_KarstLaterAndSmallerDownstream ==
    (pc = "run" /\ last.op = "mount") =>
        /\ KarstSourcePeakAbout16
        /\ KarstPeaksLaterDownstream
        /\ Amplitude(KarstRoquevaireSeries) < Amplitude(KarstStZacharieSeries)
        /\ Amplitude(KarstAubagneSeries) < Amplitude(KarstRoquevaireSeries)
        /\ Amplitude(KarstMarseilleSeries) < Amplitude(KarstAubagneSeries)

\* C19 amended: the karst pulse of St Zacharie peaks at about 16 h and at
\* each station downstream the karst pulse peaks strictly later than at the
\* station immediately upstream; its amplitude is strictly smaller at
\* Aubagne than at Roquevaire and at Marseille than at Aubagne, but larger
\* at Roquevaire than at St Zacharie.
C19_KarstLaterDownstreamRoquevaireLargest ==
    (pc = "run" /\ last.op = "mount") =>
        /\ KarstSourcePeakAbout16
        /\ KarstPeaksLaterDownstream
        /\ Amplitude(KarstRoquevaireSeries) > Amplitude(KarstStZacharieSeries)
        /\ Amplitude(KarstAubagneSeries) < Amplitude(KarstRoquevaireSeries)
        /\ Amplitude(KarstMarseilleSeries) < Amplitude(KarstAubagneSeries)

\* App has mounted on the loaded series, whose karst pulse of Roquevaire
\* peaks at 17.5 h, above the peak of St Zacharie at 16 h
C19_Witness ==
    /\ pc = "run"
    /\ last.op = "mount"
    /\ PeakTimes(KarstStZacharieSeries) = {HalfHours(32)}
    /\ PeakTimes(KarstRoquevaireSeries) = {HalfHours(35)}
    /\ Amplitude(KarstRoquevaireSeries) > Amplitude(KarstStZacharieSeries)

\* C20: the runoff pulse peaks earliest at Marseille and strictly later at
\* each station upstream (Aubagne, Roquevaire, St Zacharie); St Zacharie has
\* the latest runoff peak and the smallest runoff amplitude of the four.
C20_RunoffLaterUpstream ==
    LET rS == RunoffStZacharieSeries
        rR == RunoffRoquevaireSeries
        rA == RunoffAubagneSeries
        rM == RunoffMarseilleSeries
    IN  (pc = "run" /\ last.op = "mount") =>
            /\ PeaksLater(rM, rA) /\ PeaksLater(rA, rR) /\ PeaksLater(rR, rS)
            /\ PeaksLater(rM, rS)
            /\ Amplitude(rS) < Amplitude(rR)
            /\ Amplitude(rS) < Amplitude(rA)
            /\ Amplitude(rS) < Amplitude(rM)

\* App has mounted on the loaded series, whose runoff pulse peaks at 6 h at
\* Marseille and at 9 h at St Zacharie
C20_Witness ==
    /\ pc = "run"
    /\ last.op = "mount"
    /\ PeakTimes(RunoffMarseilleSeries) = {HalfHours(12)}
    /\ PeakTimes(RunoffStZacharieSeries) = {HalfHours(18)}
    /\ Amplitude(RunoffStZacharieSeries) = LevelScale \div 10

\* the two-digit numerals 00..23, written out
TwoDigits ==
    <<"00", "01", "02", "03", "04", "05", "06", "07", "08", "09", "10", "11",
      "12", "13", "14", "15", "16", "17", "18", "19", "20", "21", "22", "23">>

\* the label 'DD-02 HH:MM' of a sample time that is a whole number of half
\* hours: DD = floor(t / 24) + 9, HH = floor(t mod 24), MM = 00 or 30
LabelOfTime(t) ==
    LET halves == (2 * t) \div TimeScale
        DD == TwoDigits[(halves \div 48) + 9 + 1]
        HH == TwoDigits[((halves % 48) \div 2) + 1]
        MM == IF halves % 2 = 1 THEN "30" ELSE "00"
    IN  DD \o "-02 " \o HH \o ":" \o MM

\* C21: the label of every sample is determined by its time t and is the
\* zero-padded 'DD-02 HH:MM' with DD = floor(t / 24) + 9, HH = floor(t mod 24),
\* MM = floor(frac(t) * 60); t = 0 gives '09-02 00:00', t = 48 '11-02 00:00'.
C21_LabelFromTime ==
    LET data == SIMULATION_DATA
    IN  pc = "run" =>
        /\ \A k \in 1..Len(data) : data[k].label = LabelOfTime(data[k].time)
        /\ data[1].time = 0 /\ data[1].label = "09-02 00:00"
        /\ data[Len(data)].time = 48 * TimeScale
        /\ data[Len(data)].label = "11-02 00:00"

\* the timeline is at 16.5 h and the chart's cursor is at the label of that
\* sample, a label with a day, an hour and a half hour
C21_Witness ==
    /\ pc = "run"
    /\ 2 * currentTime = 33 * TimeScale
    /\ HydrographCursor(SIMULATION_DATA, currentTime) = "09-02 16:30"

\* C22: after seek(16) the sample looked up is the one of 16 h; there the
\* level of St Zacharie is at a local maximum (not lower than at 15.5 h and
\* 16.5 h), and the level of Marseille is past its runoff peak of 6 h and
\* rising (lower at 16 h than at 16.5 h) toward its karst peak of 21 h.
C22_SeekToKarstPeak ==
    LET data == SIMULATION_DATA
        k == FloodSimulationData(data, currentTime)
        at6 == Find(data, 6 * TimeScale)
        at21 == Find(data, 21 * TimeScale)
    IN  (pc = "run" /\ last.op = "seek" /\ last.arg = 16 * TimeScale) =>
            /\ data[k].time = 16 * TimeScale
            /\ StationMapData(data, currentTime) = k
            /\ 2 * data[k - 1].time = 31 * TimeScale
            /\ 2 * data[k + 1].time = 33 * TimeScale
            /\ data[k].stZacharie >= data[k - 1].stZacharie
            /\ data[k].stZacharie >= data[k + 1].stZacharie
            \* Marseille: a runoff peak at 6 h, behind the sample of 16 h
            /\ data[at6].marseille > data[at6 - 1].marseille
            /\ data[at6].marseille > data[at6 + 1].marseille
            /\ at6 < k
            /\ data[k].marseille < data[at6].marseille
            \* rising toward the karst peak at 21 h, ahead of it
            /\ data[k].marseille < data[k + 1].marseille
            /\ k < at21
            /\ \A j \in k..(at21 - 1) : data[j].marseille < data[j + 1].marseille
            /\ data[at21].marseille > data[at21 + 1].marseille

\* the slider was moved to 16 h with playback off and the map shows the
\* sample of 16 h
C22_Witness ==
    /\ pc = "run"
    /\ last.op = "seek"
    /\ last.arg = 16 * TimeScale
    /\ ~isPlaying
    /\ activeTab = "map"
    /\ SIMULATION_DATA[StationMapData(SIMULATION_DATA, currentTime)].time = 16 * TimeScale

\* C23: at most one animation-frame callback is requested at any moment,
\* and none once a pause, reset or automatic pause has taken effect (isPlaying
\* is false and the effect of that render has run); a speed change during
\* playback or a pause followed by a resume leaves a single chain of frames.
C23_SingleFrameChain ==
    /\ Cardinality(raf) <= 1
    /\ \A c \in raf : c.id = requestRef
    /\ (pc = "run" /\ ~isPlaying /\ effectDeps = <<isPlaying, playbackSpeed>>) => raf = {}
    /\ (isPlaying /\ last.op \in {"speed", "togglePlay"}) =>
           raf = {[id |-> requestRef, isPlaying |-> TRUE, playbackSpeed |-> playbackSpeed]}

\* the speed was changed to 2 while frames were running: one frame is
\* requested, that of the closure of the new render
C23_Witness ==
    /\ last.op = "speed"
    /\ last.playing
    /\ isPlaying
    /\ lastTimeRef # UNDEFINED
    /\ raf = {[id |-> requestRef, isPlaying |-> TRUE, playbackSpeed |-> 2]}

\* C24: a seek made between two frames of running playback is not lost: the
\* next frame computes from the sought value, currentTime becoming
\* min(t_seek + elapsed * 2 * speed, MAX_TIME) (t_seek itself when the frame
\* is the first since playback started and measures no elapsed time).
C24_FrameAfterSeekStartsFromSeek ==
    [][\A c \in raf :
          (last.op = "seek" /\ isPlaying /\ animate(c)) =>
              currentTime' =
                  IF lastTimeRef = UNDEFINED
                  THEN last.arg
                  ELSE IF last.arg + lastTimeRef * 2 * playbackSpeed < TOTAL_HOURS * TimeScale
                       THEN last.arg + lastTimeRef * 2 * playbackSpeed
                       ELSE TOTAL_HOURS * TimeScale]_vars

\* a frame of running playback has carried the timeline half an hour past
\* the slider position just above 16 h: frames add 2 * elapsed * speed, an
\* even number of units, so this odd time is the sought value plus an advance
C24_Witness ==
    /\ last.op = "frame"
    /\ last.playing
    /\ isPlaying
    /\ lastTimeRef = 0
    /\ currentTime = HalfHours(32) + 1 + 2
    /\ currentTime % 2 = 1

\* C25: time spent paused is never added to currentTime: lastTimeRef is
\* undefined whenever playback is off and the effect has run, and right after
\* a start; a frame that finds it undefined records its timestamp and keeps
\* currentTime; the next frame of running playback adds the time elapsed
\* since that frame times 2 * speed (up to MAX_TIME).
C25_PausedTimeNotCounted ==
    [][/\ (pc = "run" /\ ~isPlaying /\ effectDeps = <<isPlaying, playbackSpeed>>)
              => lastTimeRef = UNDEFINED
       /\ (togglePlay /\ ~isPlaying) => lastTimeRef' = UNDEFINED
       /\ \A c \in raf :
              animate(c) =>
                  /\ lastTimeRef = UNDEFINED =>
                         (currentTime' = currentTime /\ lastTimeRef' = 0)
                  /\ (lastTimeRef # UNDEFINED /\ isPlaying) =>
                         \/ currentTime' = currentTime + lastTimeRef * 2 * playbackSpeed
                         \/ currentTime' = TOTAL_HOURS * TimeScale]_vars

\* playback was restarted in mid-timeline, at a time only frames lead to,
\* and no timestamp is left over from before the pause
C25_Witness ==
    /\ last.op = "togglePlay"
    /\ ~last.playing
    /\ isPlaying
    /\ lastTimeRef = UNDEFINED
    /\ currentTime = 4 * TimeScale
    /\ currentTime \notin SliderValues

\* C26: play pressed at currentTime = MAX_TIME does not restart or wrap the
\* timeline: from MAX_TIME currentTime changes only by a seek or a reset,
\* and isPlaying is false again after the second frame (the first frame
\* records its timestamp, the next one stops playback).
C26_PlayAtEndStops ==
    [][/\ (currentTime = TOTAL_HOURS * TimeScale /\ ~SliderChange /\ ~handleReset)
              => currentTime' = TOTAL_HOURS * TimeScale
       /\ (togglePlay /\ ~isPlaying) => lastTimeRef' = UNDEFINED
       /\ \A c \in raf :
              (animate(c) /\ isPlaying /\ currentTime = TOTAL_HOURS * TimeScale) =>
                  /\ lastTimeRef = UNDEFINED => (isPlaying' /\ lastTimeRef' = 0)
                  /\ lastTimeRef # UNDEFINED => ~isPlaying']_vars

\* play was pressed at the end of the timeline
C26_Witness ==
    /\ last.op = "togglePlay"
    /\ ~last.playing
    /\ isPlaying
    /\ currentTime = TOTAL_HOURS * TimeScale
    /\ raf # {}

\* C27: between two user seeks or resets currentTime never decreases (a
\* frame adds a non-negative amount, the other steps keep it), and so the
\* index of the sample the lookup selects never decreases from one frame to
\* the next.
C27_TimeAndIndexNeverDecrease ==
    [][/\ (~SliderChange /\ ~handleReset) => currentTime' >= currentTime
       /\ (AnimationFrame /\ currentTime' # currentTime) =>
              /\ currentTime' > currentTime
              /\ FloodSimulationData(SIMULATION_DATA, currentTime') >=
                     FloodSimulationData(SIMULATION_DATA, currentTime)]_vars

\* frames have moved the lookup on to the tenth sample
C27_Witness ==
    /\ last.op = "frame"
    /\ last.playing
    /\ isPlaying
    /\ FloodSimulationData(SIMULATION_DATA, currentTime) = 10

\* C28: the labels of the 97 samples are pairwise distinct, so the label the
\* chart's cursor lookup finds is the label of exactly one sample.
C28_LabelsDistinct ==
    LET data == SIMULATION_DATA
        cursor == HydrographCursor(data, currentTime)
    IN  /\ (pc = "run" /\ last.op = "mount") =>
               /\ Len(data) = 97
               /\ \A j \in 1..Len(data) : \A k \in 1..Len(data) :
                      data[j].label = data[k].label => j = k
        /\ pc = "run" =>
               Cardinality({k \in 1..Len(data) : data[k].label = cursor}) = 1

\* the cursor is at the sample of 24 h, whose hour and minute are those of
\* the samples of 0 h and 48 h
C28_Witness ==
    /\ pc = "run"
    /\ currentTime = 24 * TimeScale
    /\ HydrographCursor(SIMULATION_DATA, currentTime) = "10-02 00:00"
    /\ SIMULATION_DATA[1].label = "09-02 00:00"

\* C29: the infiltration progress of KarstLabels is synchronized with that
\* of KarstMassif: for every currentTime the labels' progress is the massif's
\* global progress capped at 1 (same start time, same duration).
C29_LabelsSyncedWithMassif ==
    pc = "run" =>
        KarstLabelsProgress(currentTime) =
            (IF KarstMassifRawProgress(currentTime) < ProgressScale
             THEN KarstMassifRawProgress(currentTime)
             ELSE ProgressScale)

====
